---- MODULE Spec2Model ----
(***************************************************************************)
(* Verification model of three independent units of the repository:        *)
(*   - FModioInitializeAsyncCommand (Tests/Commands/InitializeAsync.h),    *)
(*     a latent automation-test command;                                   *)
(*   - OptionalWrapper.h, the optional-type include shim;                  *)
(*   - UOverlayStaticMeshComponent (Rendering/OverlayStaticMeshComponent.h)*)
(* Each unit has its own specification over its own variables.             *)
(***************************************************************************)
EXTENDS Integers, Sequences, FiniteSets, TLC

(***************************************************************************)
(* Bounds                                                                  *)
(***************************************************************************)
\* error codes the SDK may deliver are 0..MaxErrorCode; 0 is "no error"
MaxErrorCode == 4
\* engine ticks counted exactly up to MaxTicks (the counter saturates there)
MaxTicks == 12
\* how many times the translation unit includes OptionalWrapper.h
MaxIncludes == 2
\* materials are 1..MaxMaterials
MaxMaterials == 2
\* overlay values are 0..MaxOverlayValue
MaxOverlayValue == 2

VARIABLES
    \* ---- FModioInitializeAsyncCommand and its surroundings ----
    bHasStarted,   \* latent-command base: Start() has been run
    bIsDone,       \* latent-command base: the "done" flag set by Done()
    Modio,         \* the SDK handle: calls dispatched, calls awaiting completion, codes delivered
    CurrentTest,   \* the automation test: sequence of recorded assertions
    trace,         \* history: the calls the command made, in order
    ticks,         \* history: number of Update polls so far (saturating)
    lastUpdate     \* history: value returned by the latest Update poll

VARIABLES
    \* ---- a translation unit that includes OptionalWrapper.h ----
    defined,       \* platform macros defined for the build
    onceSeen,      \* #pragma once: the header has been entered before
    included,      \* files pulled in so far, each with the warnings disabled at that point
    warnDisabled,  \* compiler warnings currently disabled
    warnStack,     \* saved warning states (DISABLE_WARNING_PUSH / _POP)
    warnAtEntry,   \* history: warnings disabled when the header was first entered
    inclusions     \* history: number of #include "modio/detail/OptionalWrapper.h" seen

VARIABLES
    \* ---- UOverlayStaticMeshComponent ----
    bAutoCreateDynamicOverlay,  \* create the dynamic instance automatically
    OverlayMaterial,            \* the configured overlay material, or NULL
    OverlayMaterialDynamic,     \* nullptr, or the dynamic instance [parent, value]
    OverlayValue,               \* scalar sent to the dynamic instance
    bRegistered,                \* the component has been registered
    lastOp,                     \* history: the latest operation on the component
    bSent                       \* history: the latest operation wrote a value to the instance

cmdVars == <<bHasStarted, bIsDone, Modio, CurrentTest, trace, ticks, lastUpdate>>
ppVars == <<defined, onceSeen, included, warnDisabled, warnStack, warnAtEntry, inclusions>>

ovVars == <<bAutoCreateDynamicOverlay, OverlayMaterial, OverlayMaterialDynamic, OverlayValue,
            bRegistered, lastOp, bSent>>

vars == <<cmdVars, ppVars, ovVars>>

ErrorCodes == 0..MaxErrorCode

(***************************************************************************)
(* FModioErrorCode converts to bool: true when it holds an error.  The     *)
(* assertion TestEqual(What, ec, false) compares that conversion with      *)
(* the expected value false.                                               *)
(***************************************************************************)
ErrorCodeToBool(ec) == ec # 0

TestEqual(what, actual, expected) ==
    [what |-> what, passed |-> (actual = expected)]

Ev(op, arg) == [op |-> op, arg |-> arg]

CmdInit ==
    /\ bHasStarted = FALSE
    /\ bIsDone = FALSE
    /\ Modio = [calls |-> 0, pending |-> 0, delivered |-> <<>>]
    /\ CurrentTest = <<>>
    /\ trace = <<>>
    /\ ticks = 0
    /\ lastUpdate = FALSE

(***************************************************************************)
(* Start(): one Modio->InitializeAsync(options, delegate bound to Callback)*)
(* Written as the state Start leaves behind, used by Update.               *)
(***************************************************************************)
StartMutTwice(m) ==
    [m EXCEPT !.calls = @ + 2, !.pending = @ + 2]

Start(m) ==
    [m EXCEPT !.calls = @ + 1, !.pending = @ + 1]

\* Done() of the latent-command base: raise the done flag.
Done(flag) == TRUE

(***************************************************************************)
(* Update(): the per-tick poll of the latent-command base.  The first poll *)
(* runs Start(); every poll returns the done flag.                         *)
(***************************************************************************)
Update ==
    /\ IF ~bHasStarted
         THEN /\ Modio' = Start(Modio)
              /\ trace' = Append(trace, Ev("InitializeAsync", 0))
              /\ bHasStarted' = TRUE
         ELSE UNCHANGED <<Modio, trace, bHasStarted>>
    /\ lastUpdate' = bIsDone
    /\ ticks' = IF ticks < MaxTicks THEN ticks + 1 ELSE ticks
    /\ UNCHANGED <<bIsDone, CurrentTest>>

(***************************************************************************)
(* Callback(ec): invoked by the SDK when a dispatched InitializeAsync      *)
(* completes.  Records the assertion, then calls Done().                   *)
(***************************************************************************)
CallbackMutDoneFirst(ec) ==
    /\ Modio.pending > 0
    /\ Modio' = [Modio EXCEPT !.pending = @ - 1, !.delivered = Append(@, ec)]
    /\ CurrentTest' = Append(CurrentTest,
           TestEqual("SDK initializes completes without errors", ErrorCodeToBool(ec), FALSE))
    /\ bIsDone' = Done(bIsDone)
    /\ trace' = trace \o <<Ev("Done", 0), Ev("TestEqual", ec)>>
    /\ UNCHANGED <<bHasStarted, ticks, lastUpdate>>

CallbackMutExpectTrue(ec) ==
    /\ Modio.pending > 0
    /\ Modio' = [Modio EXCEPT !.pending = @ - 1, !.delivered = Append(@, ec)]
    /\ CurrentTest' = Append(CurrentTest,
           TestEqual("SDK initializes completes without errors", ErrorCodeToBool(ec), TRUE))
    /\ bIsDone' = Done(bIsDone)
    /\ trace' = trace \o <<Ev("TestEqual", ec), Ev("Done", 0)>>
    /\ UNCHANGED <<bHasStarted, ticks, lastUpdate>>

CallbackMutNoAssert(ec) ==
    /\ Modio.pending > 0
    /\ Modio' = [Modio EXCEPT !.pending = @ - 1, !.delivered = Append(@, ec)]
    /\ bIsDone' = Done(bIsDone)
    /\ trace' = Append(trace, Ev("Done", 0))
    /\ UNCHANGED <<CurrentTest, bHasStarted, ticks, lastUpdate>>

CallbackMutNoDone(ec) ==
    /\ Modio.pending > 0
    /\ Modio' = [Modio EXCEPT !.pending = @ - 1, !.delivered = Append(@, ec)]
    /\ CurrentTest' = Append(CurrentTest,
           TestEqual("SDK initializes completes without errors", ErrorCodeToBool(ec), FALSE))
    /\ trace' = Append(trace, Ev("TestEqual", ec))
    /\ UNCHANGED <<bIsDone, bHasStarted, ticks, lastUpdate>>

Callback(ec) ==
    /\ Modio.pending > 0
    /\ Modio' = [Modio EXCEPT !.pending = @ - 1, !.delivered = Append(@, ec)]
    /\ CurrentTest' = Append(CurrentTest,
           TestEqual("SDK initializes completes without errors", ErrorCodeToBool(ec), FALSE))
    /\ bIsDone' = Done(bIsDone)
    /\ trace' = trace \o <<Ev("TestEqual", ec), Ev("Done", 0)>>
    /\ UNCHANGED <<bHasStarted, ticks, lastUpdate>>

SdkCompletes == \E ec \in ErrorCodes : Callback(ec)

\* the steps of the command's lifecycle; the other units stand still
Tick == Update /\ UNCHANGED <<ppVars, ovVars>>
Completion == SdkCompletes /\ UNCHANGED <<ppVars, ovVars>>

CmdNext ==
    \/ Tick
    \/ Completion

(***************************************************************************)
(* OptionalWrapper.h as the preprocessor sees it.                          *)
(***************************************************************************)
PlatformMacros == {"MODIO_PLATFORM_UNREAL", "__GNUC__", "__clang__"}

Warnings == {"NOT_IMPLICIT_CONSTRUCTOR", "NOT_IMPLICIT_DESCTRUCTOR",
             "SIGNED_UNSIGNED_INTEGER_COMPARISON"}

Inc(file) == [kind |-> "include", arg |-> file]
Push == [kind |-> "push", arg |-> ""]
Pop == [kind |-> "pop", arg |-> ""]
Disable(w) == [kind |-> "disable", arg |-> w]

\* the #if / #elif / #else chain of lines 13, 28, 39
Branch(d) ==
    IF "MODIO_PLATFORM_UNREAL" \in d THEN "unreal"
    ELSE IF "__GNUC__" \in d \/ "__clang__" \in d THEN "gnu"
    ELSE "other"

\* the directives of the branch that survives, in file order
BranchBodyMutStdOptional(b) ==
    IF b = "unreal" THEN
        << Inc("MODIO_UNREAL_PLATFORM_PREAMBLE"),
           Inc("modio/detail/ModioCompilerMacros.h"),
           Push,
           Disable("NOT_IMPLICIT_CONSTRUCTOR"),
           Disable("NOT_IMPLICIT_DESCTRUCTOR"),
           Inc("tl/optional.hpp"),
           Pop,
           Inc("MODIO_UNREAL_PLATFORM_EPILOGUE") >>
    ELSE IF b = "gnu" THEN
        << Inc("modio/detail/ModioCompilerMacros.h"),
           Push,
           Disable("SIGNED_UNSIGNED_INTEGER_COMPARISON"),
           Inc("tl/optional.hpp"),
           Pop >>
    ELSE
        << Inc("optional") >>

BranchBody(b) ==
    IF b = "unreal" THEN
        << Inc("MODIO_UNREAL_PLATFORM_PREAMBLE"),
           Inc("modio/detail/ModioCompilerMacros.h"),
           Push,
           Disable("NOT_IMPLICIT_CONSTRUCTOR"),
           Disable("NOT_IMPLICIT_DESCTRUCTOR"),
           Inc("tl/optional.hpp"),
           Pop,
           Inc("MODIO_UNREAL_PLATFORM_EPILOGUE") >>
    ELSE IF b = "gnu" THEN
        << Inc("modio/detail/ModioCompilerMacros.h"),
           Push,
           Disable("SIGNED_UNSIGNED_INTEGER_COMPARISON"),
           Inc("tl/optional.hpp"),
           Pop >>
    ELSE
        << Inc("tl/optional.hpp") >>

\* one directive applied to the preprocessor state st = [inc, dis, stk]
Directive(dir, st) ==
    CASE dir.kind = "include" ->
            [st EXCEPT !.inc = Append(@, [file |-> dir.arg, disabled |-> st.dis])]
      [] dir.kind = "push" -> [st EXCEPT !.stk = Append(@, st.dis)]
      [] dir.kind = "disable" -> [st EXCEPT !.dis = @ \cup {dir.arg}]
      [] dir.kind = "pop" ->
            IF st.stk = <<>> THEN st
            ELSE [st EXCEPT !.dis = st.stk[Len(st.stk)],
                            !.stk = SubSeq(st.stk, 1, Len(st.stk) - 1)]

RECURSIVE Process(_, _)
Process(dirs, st) ==
    IF dirs = <<>> THEN st
    ELSE Process(Tail(dirs), Directive(Head(dirs), st))

PPInit ==
    /\ defined \in SUBSET PlatformMacros
    /\ warnDisabled \in SUBSET Warnings
    /\ warnAtEntry = warnDisabled
    /\ onceSeen = FALSE
    /\ included = <<>>
    /\ warnStack = <<>>
    /\ inclusions = 0

\* the translation unit reaches an #include "modio/detail/OptionalWrapper.h"
IncludeOptionalWrapper ==
    /\ inclusions < MaxIncludes
    /\ inclusions' = inclusions + 1
    /\ IF onceSeen
         THEN UNCHANGED <<onceSeen, included, warnDisabled, warnStack>>
         ELSE LET st == Process(BranchBody(Branch(defined)),
                                [inc |-> included, dis |-> warnDisabled, stk |-> warnStack])
              IN /\ onceSeen' = TRUE
                 /\ included' = st.inc
                 /\ warnDisabled' = st.dis
                 /\ warnStack' = st.stk
    /\ UNCHANGED <<defined, warnAtEntry>>

PPNext ==
    \/ IncludeOptionalWrapper /\ UNCHANGED <<cmdVars, ovVars>>

\* a state of the translation unit before any inclusion, used while another unit runs
PPIdle ==
    /\ defined = {}
    /\ warnDisabled = {}
    /\ warnAtEntry = {}
    /\ onceSeen = FALSE
    /\ included = <<>>
    /\ warnStack = <<>>
    /\ inclusions = 0

\* the command before its first poll, used while another unit runs
CmdIdle == CmdInit

(***************************************************************************)
(* UOverlayStaticMeshComponent.                                            *)
(***************************************************************************)
NULL == 0
Materials == 1..MaxMaterials
OverlayValues == 0..MaxOverlayValue
\* the scalar of a dynamic instance nobody has written yet (the parent's default)
Unset == -1

\* the null UMaterialInstanceDynamic pointer: an instance of no material
nullptr == [parent |-> NULL, value |-> Unset]

\* UMaterialInstanceDynamic::Create(Parent, this)
CreateDynamic(parent) == [parent |-> parent, value |-> Unset]

(***************************************************************************)
(* The component as constructed and loaded, before registration: the       *)
(* EditAnywhere properties hold what was saved (the header's defaults       *)
(* being one case), the Transient instance pointer is nullptr.             *)
(***************************************************************************)
OvInitMutStaleDynamic ==
    /\ bAutoCreateDynamicOverlay \in BOOLEAN
    /\ OverlayMaterial \in Materials \cup {NULL}
    /\ OverlayMaterialDynamic = CreateDynamic(1)
    /\ OverlayValue \in OverlayValues
    /\ bRegistered = FALSE
    /\ lastOp = Ev("none", 0)
    /\ bSent = FALSE

OvInit ==
    /\ bAutoCreateDynamicOverlay \in BOOLEAN
    /\ OverlayMaterial \in Materials \cup {NULL}
    /\ OverlayMaterialDynamic = nullptr
    /\ OverlayValue \in OverlayValues
    /\ bRegistered = FALSE
    /\ lastOp = Ev("none", 0)
    /\ bSent = FALSE

\* the header's member initialisers
OvDefaults ==
    /\ bAutoCreateDynamicOverlay = TRUE
    /\ OverlayMaterial = NULL
    /\ OverlayMaterialDynamic = nullptr
    /\ OverlayValue = 0

\* SetOverlayMaterial(InMaterial)
SetOverlayMaterialMutIgnoreFlag(InMaterial) ==
    /\ OverlayMaterial' = InMaterial
    /\ OverlayMaterialDynamic' =
          IF InMaterial # NULL THEN CreateDynamic(InMaterial) ELSE nullptr
    /\ lastOp' = Ev("SetOverlayMaterial", InMaterial)
    /\ bSent' = FALSE
    /\ UNCHANGED <<bAutoCreateDynamicOverlay, OverlayValue, bRegistered>>

SetOverlayMaterial(InMaterial) ==
    /\ OverlayMaterial' = InMaterial
    /\ OverlayMaterialDynamic' =
          IF bAutoCreateDynamicOverlay /\ InMaterial # NULL
            THEN CreateDynamic(InMaterial)
            ELSE nullptr
    /\ lastOp' = Ev("SetOverlayMaterial", InMaterial)
    /\ bSent' = FALSE
    /\ UNCHANGED <<bAutoCreateDynamicOverlay, OverlayValue, bRegistered>>

\* OnRegister(): make the dynamic instance for the configured material if it is missing
OnRegister ==
    /\ bRegistered' = TRUE
    /\ OverlayMaterialDynamic' =
          IF bAutoCreateDynamicOverlay /\ OverlayMaterial # NULL
            THEN IF OverlayMaterialDynamic # nullptr
                    /\ OverlayMaterialDynamic.parent = OverlayMaterial
                   THEN OverlayMaterialDynamic
                   ELSE CreateDynamic(OverlayMaterial)
            ELSE OverlayMaterialDynamic
    /\ lastOp' = Ev("OnRegister", 0)
    /\ bSent' = FALSE
    /\ UNCHANGED <<bAutoCreateDynamicOverlay, OverlayMaterial, OverlayValue>>

\* TickComponent() and the render-data update it requests
TickComponentMutNoSend ==
    /\ bRegistered
    /\ lastOp' = Ev("TickComponent", 0)
    /\ bSent' = FALSE
    /\ UNCHANGED <<bAutoCreateDynamicOverlay, OverlayMaterial, OverlayMaterialDynamic,
                   OverlayValue, bRegistered>>

TickComponent ==
    /\ bRegistered
    /\ IF OverlayMaterialDynamic # nullptr
         THEN /\ OverlayMaterialDynamic' = [OverlayMaterialDynamic EXCEPT !.value = OverlayValue]
              /\ bSent' = TRUE
         ELSE /\ UNCHANGED OverlayMaterialDynamic
              /\ bSent' = FALSE
    /\ lastOp' = Ev("TickComponent", 0)
    /\ UNCHANGED <<bAutoCreateDynamicOverlay, OverlayMaterial, OverlayValue, bRegistered>>

\* a write to the BlueprintReadWrite property OverlayValue
SetOverlayValue(v) ==
    /\ OverlayValue' = v
    /\ lastOp' = Ev("SetOverlayValue", v)
    /\ bSent' = FALSE
    /\ UNCHANGED <<bAutoCreateDynamicOverlay, OverlayMaterial, OverlayMaterialDynamic,
                   bRegistered>>

OvNext ==
    \/ (\E m \in Materials \cup {NULL} : SetOverlayMaterial(m)) /\ UNCHANGED <<cmdVars, ppVars>>
    \/ OnRegister /\ UNCHANGED <<cmdVars, ppVars>>
    \/ TickComponent /\ UNCHANGED <<cmdVars, ppVars>>
    \/ (\E v \in OverlayValues : SetOverlayValue(v)) /\ UNCHANGED <<cmdVars, ppVars>>

\* the component as constructed, used while another unit runs
OvIdle ==
    /\ OvDefaults
    /\ bRegistered = FALSE
    /\ lastOp = Ev("none", 0)
    /\ bSent = FALSE

\* each unit starts from its own initial states while the other two stand idle
Init == CmdInit /\ PPIdle /\ OvIdle
InitPP == PPInit /\ CmdIdle /\ OvIdle
InitOverlay == OvInit /\ CmdIdle /\ PPIdle

Spec == Init /\ [][CmdNext]_vars

SpecPP == InitPP /\ [][PPNext]_vars

SpecOverlay == InitOverlay /\ [][OvNext]_vars

\* the engine keeps ticking and the SDK completes every dispatched call
LiveSpec == Spec /\ WF_vars(Tick) /\ WF_vars(Completion)

(***************************************************************************)
(* Properties of FModioInitializeAsyncCommand                              *)
(***************************************************************************)
What == "SDK initializes completes without errors"

\* the automation test passes when no recorded assertion failed
TestPasses == \A i \in DOMAIN CurrentTest : CurrentTest[i].passed

\* number of entries of the call history made by operation op
Count(op) == Cardinality({i \in DOMAIN trace : trace[i].op = op})

\* C1: the assertion recorded for each error code delivered to Callback passes
\* exactly when that code is falsy, so a finished command leaves the test
\* passing only if a no-error code was delivered.
C1_AssertionPassesIffNoError ==
    /\ Len(CurrentTest) = Len(Modio.delivered)
    /\ \A i \in DOMAIN CurrentTest :
          /\ CurrentTest[i].what = What
          /\ CurrentTest[i].passed <=> (Modio.delivered[i] = 0)
    /\ (bIsDone /\ TestPasses) =>
          /\ Modio.delivered # <<>>
          /\ \A i \in DOMAIN Modio.delivered : Modio.delivered[i] = 0

C1_Witness ==
    /\ bIsDone
    /\ Len(CurrentTest) = 1
    /\ Modio.delivered[1] = MaxErrorCode
    /\ ~CurrentTest[1].passed

\* C2: over the lifecycle the SDK receives exactly one InitializeAsync call:
\* none before Start has run, one from then on, however many polls and
\* callbacks follow.
C2_ExactlyOneInitializeAsync ==
    /\ Modio.calls = (IF bHasStarted THEN 1 ELSE 0)
    /\ Count("InitializeAsync") = Modio.calls
    /\ Modio.pending + Len(Modio.delivered) = Modio.calls
    /\ (trace # <<>>) => trace[1].op = "InitializeAsync"

C2_Witness ==
    /\ bIsDone
    /\ lastUpdate
    /\ ticks >= 3
    /\ Modio.calls = 1

\* C6: every Callback invocation, for an error code as for a no-error code,
\* records the assertion for that code and then marks the command done; it
\* dispatches no further SDK call.
C6_CallbackAssertsThenDone ==
    [][Len(Modio'.delivered) > Len(Modio.delivered) =>
         LET ec == Modio'.delivered[Len(Modio'.delivered)]
         IN /\ bIsDone'
            /\ trace' = trace \o <<Ev("TestEqual", ec), Ev("Done", 0)>>
            /\ Len(CurrentTest') = Len(CurrentTest) + 1
            /\ Modio'.calls = Modio.calls
            /\ Modio'.pending = Modio.pending - 1]_vars

C6_Witness ==
    /\ bIsDone
    /\ Len(Modio.delivered) = 1
    /\ Modio.delivered[1] # 0
    /\ Modio.pending = 0
    /\ trace[Len(trace)].op = "Done"

\* C7: with the engine ticking and the SDK completing the call, a poll
\* eventually reports the command complete, and every later poll does too.
C7_EventuallyCompleteAndStable ==
    /\ <>lastUpdate
    /\ [](lastUpdate => []lastUpdate)

C7_Witness ==
    /\ lastUpdate
    /\ bIsDone
    /\ ticks >= 2

\* C9: the command is done only through Callback: a done command has been
\* started and has had a callback, the step that raises the done flag is a
\* Callback invocation, and the test holds one assertion per invocation.
C9_DoneOnlyByCallback ==
    /\ [](bIsDone => (bHasStarted /\ Len(Modio.delivered) >= 1
                      /\ trace[1].op = "InitializeAsync"))
    /\ [](Len(CurrentTest) = Len(Modio.delivered))
    /\ [](Count("TestEqual") = Len(Modio.delivered))
    /\ [][(~bIsDone /\ bIsDone') =>
              Len(Modio'.delivered) = Len(Modio.delivered) + 1]_vars
    /\ [][(Modio'.delivered = Modio.delivered) => (bIsDone' = bIsDone)]_vars

C9_Witness ==
    /\ bIsDone
    /\ Len(Modio.delivered) = 1
    /\ Len(CurrentTest) = 1
    /\ ~lastUpdate

\* a started command still waiting for the SDK after many polls is not done
C9_WaitingWitness ==
    /\ bHasStarted
    /\ ticks = MaxTicks
    /\ Modio.pending = 1
    /\ ~bIsDone

(***************************************************************************)
(* Properties of OptionalWrapper.h                                         *)
(***************************************************************************)
PlatformFiles == {"MODIO_UNREAL_PLATFORM_PREAMBLE", "MODIO_UNREAL_PLATFORM_EPILOGUE",
                  "modio/detail/ModioCompilerMacros.h"}

\* the third-party files among a list of inclusions, in order
ThirdParty(inc) == SelectSeq(inc, LAMBDA e : e.file \notin PlatformFiles)

Files(inc) == [i \in DOMAIN inc |-> inc[i].file]

\* what the header pulls in on a platform, starting from a clean unit
Expansion(d) ==
    Process(BranchBody(Branch(d)), [inc |-> <<>>, dis |-> {}, stk |-> <<>>]).inc

\* the warnings each platform disables around the optional header
SuppressedOn(d) ==
    IF "MODIO_PLATFORM_UNREAL" \in d
      THEN {"NOT_IMPLICIT_CONSTRUCTOR", "NOT_IMPLICIT_DESCTRUCTOR"}
    ELSE IF d # {} THEN {"SIGNED_UNSIGNED_INTEGER_COMPARISON"}
    ELSE {}

\* C5 as stated: which third-party optional header is included depends on the
\* platform macros, so some other platform would get a different one.
C5_HeaderDependsOnPlatform ==
    onceSeen =>
        \E d \in SUBSET PlatformMacros :
            Files(ThirdParty(Expansion(d))) # Files(ThirdParty(included))

\* C5 amended: on every platform the header includes the one third-party
\* optional header tl/optional.hpp; the platform macros decide only what
\* surrounds it: the Unreal preamble and epilogue, and the warnings disabled
\* while it is read, which are restored afterwards.
C5_SameHeaderPlatformWrapping ==
    onceSeen =>
        /\ Files(ThirdParty(included)) = <<"tl/optional.hpp">>
        /\ ThirdParty(included)[1].disabled = warnAtEntry \cup SuppressedOn(defined)
        /\ ("MODIO_PLATFORM_UNREAL" \in defined) <=>
              (/\ Files(included)[1] = "MODIO_UNREAL_PLATFORM_PREAMBLE"
               /\ Files(included)[Len(included)] = "MODIO_UNREAL_PLATFORM_EPILOGUE")
        /\ warnDisabled = warnAtEntry
        /\ warnStack = <<>>

C5_Witness ==
    /\ onceSeen
    /\ inclusions = MaxIncludes
    /\ defined = {"__clang__"}
    /\ warnAtEntry = {}
    /\ Len(included) = 2

C4_SetOverlayMaterialAutoCreates ==
    [][lastOp'.op = "SetOverlayMaterial" =>
         /\ OverlayMaterial' = lastOp'.arg
         /\ (bAutoCreateDynamicOverlay /\ lastOp'.arg # NULL) =>
               (/\ OverlayMaterialDynamic' # nullptr
                /\ OverlayMaterialDynamic'.parent = lastOp'.arg)
         /\ ~bAutoCreateDynamicOverlay =>
               (\/ OverlayMaterialDynamic' = nullptr
                \/ OverlayMaterialDynamic' = OverlayMaterialDynamic)]_vars

C4_Witness ==
    /\ lastOp = Ev("SetOverlayMaterial", MaxMaterials)
    /\ bAutoCreateDynamicOverlay
    /\ OverlayMaterialDynamic = CreateDynamic(MaxMaterials)

\* the flag is clear, a material has been set, and no instance exists
C4_DisabledWitness ==
    /\ lastOp = Ev("SetOverlayMaterial", MaxMaterials)
    /\ ~bAutoCreateDynamicOverlay
    /\ OverlayMaterialDynamic = nullptr

\* C8: a tick with a dynamic instance leaves the instance holding the
\* current OverlayValue; a change of OverlayValue while there is no instance
\* sends nothing and leaves the material and the null instance as they were.
C8_OverlayValueSentOnTick ==
    [][/\ (lastOp'.op = "TickComponent" /\ OverlayMaterialDynamic # nullptr) =>
            /\ OverlayMaterialDynamic'.value = OverlayValue'
            /\ OverlayMaterialDynamic'.parent = OverlayMaterialDynamic.parent
            /\ bSent'
       /\ (lastOp'.op = "TickComponent" /\ OverlayMaterialDynamic = nullptr) =>
            (~bSent' /\ OverlayMaterialDynamic' = nullptr)
       /\ (lastOp'.op = "SetOverlayValue" /\ OverlayMaterialDynamic = nullptr) =>
            /\ OverlayValue' = lastOp'.arg
            /\ ~bSent'
            /\ OverlayMaterial' = OverlayMaterial
            /\ OverlayMaterialDynamic' = nullptr]_vars

C8_Witness ==
    /\ lastOp.op = "TickComponent"
    /\ OverlayMaterialDynamic # nullptr
    /\ OverlayValue = MaxOverlayValue
    /\ OverlayMaterialDynamic.value = MaxOverlayValue
    /\ bSent

====
